---- MODULE Spec2Model ----
(***************************************************************************)
(* jwt-flex: token extraction, signing/verification and the four framework *)
(* adapters (Express middleware, Fastify hook, Nest guard, Node verifier). *)
(*                                                                         *)
(* Strings are sequences of atoms.  An atom is either a delimiter          *)
(* character (" ", ";", "=", "?", "&", "/", "#") or an indivisible run of  *)
(* non-delimiter characters ("Bearer", "tokA", "signature", ...).          *)
(***************************************************************************)
EXTENDS Integers, Sequences, FiniteSets, TLC

VARIABLES
    pc,         \* position of the call / handler being modelled
    req,        \* the request-like object
    options,    \* the options object handed to the call
    ext,        \* what the extraction call produced (value, thrown, calls)
    adapter,    \* which adapter handles the request
    prim,       \* how the jsonwebtoken primitive behaves for this call
    hs,         \* the handler's effects: response, next calls, settlement
    tk          \* sign/verify scenario: clock, signed token, results

vars == <<pc, req, options, ext, adapter, prim, hs, tk>>

----------------------------------------------------------------------------
(* JavaScript values that the extractors see or return.                    *)

EmptyPayload == [k \in {} |-> 0]

Null == [t |-> "null", v |-> <<>>]
Undefined == [t |-> "undefined", v |-> <<>>]
Str(s) == [t |-> "string", v |-> s]
Arr(s) == [t |-> "array", v |-> s]

\* `if (token)`, `x || null`: null, undefined and '' are falsy.
Truthy(x) == x.t = "array" \/ (x.t = "string" /\ x.v # <<>>)

\* `x || null`
OrNull(x) == IF Truthy(x) THEN x ELSE Null

\* `${x}` / String(x)
Stringify(x) == IF x.t = "undefined" THEN <<"undefined">>
                ELSE IF x.t = "null" THEN <<"null">> ELSE x.v

\* A thrown value: the library whose class it is, its constructor name,
\* whether it is an instance of Error, its message and (HttpError) status.
Err(lib, cls, isError, message, statusCode) ==
    [lib |-> lib, cls |-> cls, isError |-> isError, message |-> message,
     statusCode |-> statusCode]

NoError == Err("none", "none", FALSE, <<>>, 0)
TypeErrorInvalidURL == Err("node", "TypeError", TRUE, <<"Invalid", " ", "URL">>, 0)

Returned(x) == [thrown |-> FALSE, value |-> x, error |-> NoError]
Threw(e) == [thrown |-> TRUE, value |-> Undefined, error |-> e]

----------------------------------------------------------------------------
(* String primitives                                                       *)

\* String.prototype.toLowerCase, atom by atom.
LowerAtom(a) ==
    CASE a = "Bearer" -> "bearer"
      [] a = "BEARER" -> "bearer"
      [] a = "Signature" -> "signature"
      [] a = "Malformed" -> "malformed"
      [] a = "Invalid" -> "invalid"
      [] a = "Token" -> "token"
      [] OTHER -> a

toLowerCase(s) == [i \in 1..Len(s) |-> LowerAtom(s[i])]

\* String.prototype.includes
includes(s, pat) ==
    \E i \in 0..(Len(s) - Len(pat)) :
        \A j \in 1..Len(pat) : s[i + j] = pat[j]

\* index of the first occurrence of atom c in s, 0 when there is none
IndexOf(s, c) ==
    IF \E i \in 1..Len(s) : s[i] = c
    THEN CHOOSE i \in 1..Len(s) : s[i] = c /\ \A j \in 1..(i - 1) : s[j] # c
    ELSE 0

\* String.prototype.split(sep) for a one-character separator:
\* '' -> [''], 'a ' -> ['a', ''], 'a b' -> ['a', 'b'].
RECURSIVE split(_, _)
split(s, sep) ==
    LET i == IndexOf(s, sep) IN
    IF i = 0 THEN <<s>>
    ELSE <<SubSeq(s, 1, i - 1)>> \o split(SubSeq(s, i + 1, Len(s)), sep)

\* String.prototype.trim
RECURSIVE trimStart(_)
trimStart(s) == IF s # <<>> /\ Head(s) = " " THEN trimStart(Tail(s)) ELSE s

RECURSIVE trimEnd(_)
trimEnd(s) ==
    IF s # <<>> /\ s[Len(s)] = " " THEN trimEnd(SubSeq(s, 1, Len(s) - 1)) ELSE s

trim(s) == trimEnd(trimStart(s))

\* parts joined by the separator atom
RECURSIVE Join(_, _)
Join(parts, sep) ==
    IF parts = <<>> THEN <<>>
    ELSE IF Len(parts) = 1 THEN parts[1]
    ELSE parts[1] \o <<sep>> \o Join(Tail(parts), sep)

\* obj[key] on a map given as a sequence of <<key, value>> writes: the last
\* write of a key is the one read; a key never written reads undefined.
RECURSIVE Lookup(_, _)
Lookup(writes, key) ==
    IF writes = <<>> THEN Undefined
    ELSE LET last == writes[Len(writes)] IN
         IF last[1] = key THEN last[2]
         ELSE Lookup(SubSeq(writes, 1, Len(writes) - 1), key)

----------------------------------------------------------------------------
(* new URL(input, base) and URLSearchParams.get, as the query-parameter    *)
(* extractor uses them.  A URL string is "http:" "/" "/" authority rest.   *)

SchemeHttp == "http:"

\* s up to (not including) the first atom that is in stops
RECURSIVE UpTo(_, _)
UpTo(s, stops) ==
    IF s = <<>> \/ Head(s) \in stops THEN <<>>
    ELSE <<Head(s)>> \o UpTo(Tail(s), stops)

RECURSIVE SkipSlashes(_)
SkipSlashes(s) == IF s # <<>> /\ Head(s) = "/" THEN SkipSlashes(Tail(s)) ELSE s

\* the query of a path?query#fragment remainder
QueryOf(s) ==
    LET noFrag == UpTo(s, {"#"})
        i == IndexOf(noFrag, "?")
    IN IF i = 0 THEN <<>> ELSE SubSeq(noFrag, i + 1, Len(noFrag))

\* an absolute http URL: fails on an empty host or a forbidden host code point
ParseAbsolute(s) ==
    LET rest == SkipSlashes(Tail(s))
        authority == UpTo(rest, {"/", "?", "#"})
        after == SubSeq(rest, Len(authority) + 1, Len(rest))
    IN IF authority = <<>> \/ \E i \in 1..Len(authority) : authority[i] = " "
       THEN [ok |-> FALSE, query |-> <<>>]
       ELSE [ok |-> TRUE, query |-> QueryOf(after)]

\* new URL(input, base): the base is parsed first and its failure throws
URLParse(input, base) ==
    LET b == ParseAbsolute(trim(base))
        t == trim(input)
    IN IF ~b.ok THEN b
       ELSE IF t = <<>> \/ Head(t) = "#" THEN b
       ELSE IF Head(t) = SchemeHttp THEN ParseAbsolute(t)
       ELSE IF Len(t) >= 2 /\ t[1] = "/" /\ t[2] = "/" THEN ParseAbsolute(<<SchemeHttp>> \o t)
       ELSE [ok |-> TRUE, query |-> QueryOf(t)]

\* url.searchParams.get(name): the value of the first pair named name
RECURSIVE FirstPair(_, _)
FirstPair(pieces, name) ==
    IF pieces = <<>> THEN Null
    ELSE LET p == Head(pieces)
             i == IndexOf(p, "=")
             key == IF i = 0 THEN p ELSE SubSeq(p, 1, i - 1)
             val == IF i = 0 THEN <<>> ELSE SubSeq(p, i + 1, Len(p))
         IN IF p # <<>> /\ key = name THEN Str(val)
            ELSE FirstPair(Tail(pieces), name)

searchParamsGet(query, name) == FirstPair(split(query, "&"), name)

----------------------------------------------------------------------------
(* The request-like object.  headers / query / cookies are optional maps,  *)
(* each a sequence of <<key, value>> writes.                               *)

NoMap == [present |-> FALSE, map |-> <<>>]
Map(m) == [present |-> TRUE, map |-> m]

\* obj?.[key]
Get(obj, key) == IF obj.present THEN Lookup(obj.map, key) ELSE Undefined

----------------------------------------------------------------------------
(* Built-in extractors                                                     *)

fromAuthHeaderAsBearerToken(r) ==
    LET auth == Get(r.headers, "authorization") IN
    IF auth.t = "string"
    THEN LET parts == split(auth.v, " ") IN
         IF Len(parts) = 2 /\ toLowerCase(parts[1]) = <<"bearer">>
         THEN Returned(Str(parts[2]))
         ELSE Returned(Null)
    ELSE Returned(Null)

fromQueryParameter(param, r) ==
    IF r.isIncoming
    THEN LET input == IF Truthy(r.url) THEN r.url.v ELSE <<>>
             base == <<SchemeHttp, "/", "/">> \o Stringify(Get(r.headers, "host"))
             url == URLParse(input, base)
         IN IF url.ok THEN Returned(searchParamsGet(url.query, param))
            ELSE Threw(TypeErrorInvalidURL)
    ELSE Returned(OrNull(Get(r.query, param)))

\* the reduce over req.headers.cookie.split(';')
RECURSIVE cookieWrites(_)
cookieWrites(segments) ==
    IF segments = <<>> THEN <<>>
    ELSE LET kv == split(trim(Head(segments)), "=")
             key == kv[1]
             value == IF Len(kv) >= 2 THEN Str(kv[2]) ELSE Undefined
         IN <<<<key, value>>>> \o cookieWrites(Tail(segments))

fromCookie(cookieName, r) ==
    IF r.isIncoming
    THEN LET header == Get(r.headers, "cookie") IN
         IF header.t = "string"
         THEN Returned(OrNull(Lookup(cookieWrites(split(header.v, ";")), cookieName)))
         ELSE Returned(Null)
    ELSE Returned(OrNull(Get(r.cookies, cookieName)))

\* An extractor of the configured list: a built-in, or a caller-supplied
\* function (its result on the request at hand, or the error it throws).
Bearer == [kind |-> "bearer", param |-> <<>>, ret |-> Null, err |-> NoError]
Query(p) == [kind |-> "query", param |-> p, ret |-> Null, err |-> NoError]
Cookie(n) == [kind |-> "cookie", param |-> n, ret |-> Null, err |-> NoError]
Custom(x) == [kind |-> "custom", param |-> <<>>, ret |-> x, err |-> NoError]
CustomThrows(e) == [kind |-> "throws", param |-> <<>>, ret |-> Undefined, err |-> e]

Invoke(ex, r) ==
    CASE ex.kind = "bearer" -> fromAuthHeaderAsBearerToken(r)
      [] ex.kind = "query" -> fromQueryParameter(ex.param, r)
      [] ex.kind = "cookie" -> fromCookie(ex.param, r)
      [] ex.kind = "custom" -> Returned(ex.ret)
      [] OTHER -> Threw(ex.err)

----------------------------------------------------------------------------
(* extractToken: the extractors in list order, up to the first truthy one. *)
(* calls is the list of positions invoked, in order.                       *)

Unset == [set |-> FALSE, list |-> <<>>]
List(l) == [set |-> TRUE, list |-> l]

\* extractLoop with `if (token !== null)` in place of `if (token)`
RECURSIVE extractLoopNotNull(_, _, _, _)
extractLoopNotNull(r, extractors, i, calls) ==
    IF i > Len(extractors)
    THEN [thrown |-> FALSE, value |-> Null, error |-> NoError, calls |-> calls]
    ELSE LET token == Invoke(extractors[i], r)
             called == Append(calls, i)
         IN IF token.thrown
            THEN [thrown |-> TRUE, value |-> Undefined, error |-> token.error,
                  calls |-> called]
            ELSE IF token.value # Null
            THEN [thrown |-> FALSE, value |-> token.value, error |-> NoError,
                  calls |-> called]
            ELSE extractLoopNotNull(r, extractors, i + 1, called)

RECURSIVE extractLoop(_, _, _, _)
extractLoop(r, extractors, i, calls) ==
    IF i > Len(extractors)
    THEN [thrown |-> FALSE, value |-> Null, error |-> NoError, calls |-> calls]
    ELSE LET token == Invoke(extractors[i], r)
             called == Append(calls, i)
         IN IF token.thrown
            THEN [thrown |-> TRUE, value |-> Undefined, error |-> token.error,
                  calls |-> called]
            ELSE IF Truthy(token.value)
            THEN [thrown |-> FALSE, value |-> token.value, error |-> NoError,
                  calls |-> called]
            ELSE extractLoop(r, extractors, i + 1, called)

\* options.extractors || [fromAuthHeaderAsBearerToken()]
extractorsOf(opts) == IF opts.extractors.set THEN opts.extractors.list ELSE <<Bearer>>

extractToken(r, opts) == extractLoop(r, extractorsOf(opts), 1, <<>>)

----------------------------------------------------------------------------
(* Error taxonomy                                                          *)

TokenExpiredError ==
    Err("jwt-flex", "TokenExpiredError", TRUE, <<"Token", " ", "has", " ", "expired">>, 0)
InvalidTokenError ==
    Err("jwt-flex", "InvalidTokenError", TRUE, <<"Invalid", " ", "token", " ", "signature">>, 0)
MalformedTokenError ==
    Err("jwt-flex", "MalformedTokenError", TRUE, <<"Malformed", " ", "token">>, 0)
NoTokenError ==
    Err("jwt-flex", "NoTokenError", TRUE,
        <<"No", " ", "authorization", " ", "token", " ", "was", " ", "found">>, 0)
HttpError(statusCode, message) == Err("jwt-flex", "HttpError", TRUE, message, statusCode)

----------------------------------------------------------------------------
(* The jsonwebtoken primitive, as token.ts calls it.  A token is a header  *)
(* algorithm, a payload and a MAC over both under the signing key; a       *)
(* string that is no such token is "empty" (''), "noDots" (not three       *)
(* segments) or "undecodable" (three segments that do not decode).         *)

JwtError(cls, message) == Err("jsonwebtoken", cls, TRUE, message, 0)
PlainError(message) == Err("js", "Error", TRUE, message, 0)

\* error instanceof jwt.TokenExpiredError
IsJwtTokenExpiredError(e) == e.lib = "jsonwebtoken" /\ e.cls = "TokenExpiredError"

\* error instanceof jwt.JsonWebTokenError (TokenExpiredError and
\* NotBeforeError are subclasses of it)
IsJsonWebTokenError(e) ==
    e.lib = "jsonwebtoken"
    /\ e.cls \in {"JsonWebTokenError", "TokenExpiredError", "NotBeforeError"}

Mac(secret, alg, payload) == [key |-> secret, alg |-> alg, over |-> payload]
NoMac == Mac(<<>>, "none", EmptyPayload)

Jws(alg, payload, mac) == [form |-> "jws", alg |-> alg, payload |-> payload, mac |-> mac]
NoDots == [form |-> "noDots", alg |-> "none", payload |-> EmptyPayload, mac |-> NoMac]
Empty == [form |-> "empty", alg |-> "none", payload |-> EmptyPayload, mac |-> NoMac]
Undecodable ==
    [form |-> "undecodable", alg |-> "none", payload |-> EmptyPayload, mac |-> NoMac]

\* the seconds of an expiresIn time span
SpanSeconds(expiresIn) ==
    CASE expiresIn = "0s" -> 0
      [] expiresIn = "1h" -> 3600
      [] expiresIn = "2h" -> 7200

RealPrim ==
    [mockSign |-> FALSE, signOutcome |-> Returned(Undefined),
     mockVerify |-> FALSE, verifyOutcome |-> Returned(Undefined)]
MockVerify(outcome) ==
    [mockSign |-> FALSE, signOutcome |-> Returned(Undefined),
     mockVerify |-> TRUE, verifyOutcome |-> outcome]
MockSign(outcome) ==
    [mockSign |-> TRUE, signOutcome |-> outcome,
     mockVerify |-> FALSE, verifyOutcome |-> Returned(Undefined)]

\* jwt.sign(payload, secret, { expiresIn, algorithm })
jwtSign(p, payload, secret, expiresIn, algorithm, now) ==
    IF p.mockSign THEN p.signOutcome
    ELSE IF secret = <<>>
    THEN Threw(PlainError(<<"secretOrPrivateKey", " ", "must", " ", "have", " ", "a",
                            " ", "value">>))
    ELSE IF "exp" \in DOMAIN payload
    THEN Threw(PlainError(<<"Bad", " ", "options.expiresIn">>))
    ELSE LET iat == IF "iat" \in DOMAIN payload THEN payload.iat ELSE now
             claims == payload @@ [iat |-> iat, exp |-> iat + SpanSeconds(expiresIn)]
         IN Returned(Jws(algorithm, claims, Mac(secret, algorithm, claims)))

\* jwt.verify(token, secret, { algorithms })
jwtVerify(p, token, secret, algorithms, now) ==
    IF p.mockVerify THEN p.verifyOutcome
    ELSE IF token.form = "empty"
    THEN Threw(JwtError("JsonWebTokenError", <<"jwt", " ", "must", " ", "be", " ",
                                               "provided">>))
    ELSE IF token.form = "noDots"
    THEN Threw(JwtError("JsonWebTokenError", <<"jwt", " ", "malformed">>))
    ELSE IF token.form = "undecodable"
    THEN Threw(JwtError("JsonWebTokenError", <<"invalid", " ", "token">>))
    ELSE IF secret = <<>>
    THEN Threw(JwtError("JsonWebTokenError",
                        <<"secret", " ", "or", " ", "public", " ", "key", " ", "must",
                          " ", "be", " ", "provided">>))
    ELSE IF ~(\E i \in 1..Len(algorithms) : algorithms[i] = token.alg)
    THEN Threw(JwtError("JsonWebTokenError", <<"invalid", " ", "algorithm">>))
    ELSE IF token.mac # Mac(secret, token.alg, token.payload)
    THEN Threw(JwtError("JsonWebTokenError", <<"invalid", " ", "signature">>))
    ELSE IF "exp" \in DOMAIN token.payload /\ now >= token.payload.exp
    THEN Threw(JwtError("TokenExpiredError", <<"jwt", " ", "expired">>))
    ELSE Returned(token.payload)

----------------------------------------------------------------------------
(* signToken / verifyToken                                                 *)

\* expiresInOf when the caller's expiresIn is not read
expiresInOfAlwaysDefault(opts) == "1h"

\* const { secret, expiresIn = '1h', algorithm = 'HS256' } = options
expiresInOf(opts) == IF opts.expiresIn = "unset" THEN "1h" ELSE opts.expiresIn
\* algorithmOf with another default algorithm
algorithmOfHS512(opts) == IF opts.algorithm = "unset" THEN "HS512" ELSE opts.algorithm
algorithmOf(opts) == IF opts.algorithm = "unset" THEN "HS256" ELSE opts.algorithm

\* algorithmsOf when the allow-list is not handed to the primitive, which
\* then accepts every HMAC algorithm for a string secret
algorithmsOfAnyHmac(opts) == <<"HS256", "HS384", "HS512">>

\* const { secret, algorithms = ['HS256'] } = options
algorithmsOf(opts) == IF opts.algorithms.set THEN opts.algorithms.list ELSE <<"HS256">>

FailedToSign == <<"Failed", " ", "to", " ", "sign", " ", "token:", " ">>

\* signToken without its catch block
signTokenUncaught(payload, opts, p, now) ==
    jwtSign(p, payload, opts.secret, expiresInOf(opts), algorithmOf(opts), now)

signToken(payload, opts, p, now) ==
    LET r == jwtSign(p, payload, opts.secret, expiresInOf(opts), algorithmOf(opts), now)
    IN IF ~r.thrown THEN r
       ELSE IF r.error.isError THEN Threw(PlainError(FailedToSign \o r.error.message))
       ELSE r

\* classify with the 'malformed' test ahead of the 'signature' test
classifyMalformedFirst(error) ==
    IF IsJwtTokenExpiredError(error) THEN Threw(TokenExpiredError)
    ELSE IF IsJsonWebTokenError(error)
    THEN LET msg == toLowerCase(error.message) IN
         IF includes(msg, <<"malformed">>) \/ includes(msg, <<"invalid", " ", "token">>)
         THEN Threw(MalformedTokenError)
         ELSE Threw(InvalidTokenError)
    ELSE Threw(error)

\* classify with every token error other than expiry thrown as Malformed
classifyAllMalformed(error) ==
    IF IsJwtTokenExpiredError(error) THEN Threw(TokenExpiredError)
    ELSE IF IsJsonWebTokenError(error) THEN Threw(MalformedTokenError)
    ELSE Threw(error)

\* classify without the 'malformed' / 'invalid token' test
classifyNoMalformed(error) ==
    IF IsJwtTokenExpiredError(error) THEN Threw(TokenExpiredError)
    ELSE IF IsJsonWebTokenError(error) THEN Threw(InvalidTokenError)
    ELSE Threw(error)

\* classify with the final `throw error` replaced by the default kind
classifyUnknownAsInvalid(error) ==
    IF IsJwtTokenExpiredError(error) THEN Threw(TokenExpiredError)
    ELSE IF IsJsonWebTokenError(error)
    THEN LET msg == toLowerCase(error.message) IN
         IF includes(msg, <<"signature">>) THEN Threw(InvalidTokenError)
         ELSE IF includes(msg, <<"malformed">>) \/ includes(msg, <<"invalid", " ", "token">>)
         THEN Threw(MalformedTokenError)
         ELSE Threw(InvalidTokenError)
    ELSE Threw(InvalidTokenError)

\* the catch block of verifyToken
classify(error) ==
    IF IsJwtTokenExpiredError(error) THEN Threw(TokenExpiredError)
    ELSE IF IsJsonWebTokenError(error)
    THEN LET msg == toLowerCase(error.message) IN
         IF includes(msg, <<"signature">>) THEN Threw(InvalidTokenError)
         ELSE IF includes(msg, <<"malformed">>) \/ includes(msg, <<"invalid", " ", "token">>)
         THEN Threw(MalformedTokenError)
         ELSE Threw(InvalidTokenError)
    ELSE Threw(error)

verifyToken(token, opts, p, now) ==
    LET r == jwtVerify(p, token, opts.secret, algorithmsOf(opts), now)
    IN IF ~r.thrown THEN r ELSE classify(r.error)

----------------------------------------------------------------------------
(* Inputs of the extraction specification                                  *)

MaxAuthParts == 3
MaxCookieSegs == 2
MaxExtractors == 3

SeqsOf(S, lo, hi) == UNION {[1..k -> S] : k \in lo..hi}

NoUser == [present |-> FALSE, payload |-> EmptyPayload]

Request(isIncoming, headers, url, query, cookies) ==
    [isIncoming |-> isIncoming, headers |-> headers, url |-> url,
     query |-> query, cookies |-> cookies, user |-> NoUser]

Incoming(headers, url) == Request(TRUE, Map(headers), url, NoMap, NoMap)

TokenName == <<"token">>
AccessTokenName == <<"access_token">>
SessionName == <<"session">>

\* authorization header values: one to MaxAuthParts words joined by spaces
AuthWords == {<<"Bearer">>, <<"bearer">>, <<"Basic">>, <<"tokA">>, <<>>}
AuthValues == {Join(parts, " ") : parts \in SeqsOf(AuthWords, 1, MaxAuthParts)}

AuthFamily ==
    {Incoming(<<<<"authorization", Str(v)>>>>, Undefined) : v \in AuthValues}
    \cup {Incoming(<<<<"authorization", Arr(<<"Bearer", " ", "tokA">>)>>>>, Undefined),
          Incoming(<<>>, Undefined),
          Request(FALSE, Map(<<<<"Authorization", Str(<<"Bearer", " ", "tokA">>)>>>>),
                  Undefined, NoMap, NoMap),
          Request(FALSE, Map(<<<<"authorization", Str(<<"Bearer", " ", "tokA">>)>>>>),
                  Undefined, NoMap, NoMap),
          Request(FALSE, NoMap, Undefined, NoMap, NoMap)}

\* cookie header values: one to MaxCookieSegs segments joined by ';'
CookieSegs ==
    {<<"token", "=", "tokC">>, <<"token">>, <<"session", "=", "abc">>,
     <<" ", "token", "=", "tokD">>, <<"token", "=", "tokC", "=", "x">>,
     <<"token", "=">>}
CookieValues == {Join(segs, ";") : segs \in SeqsOf(CookieSegs, 1, MaxCookieSegs)}

CookieFamily ==
    {Incoming(<<<<"cookie", Str(v)>>>>, Undefined) : v \in CookieValues}
    \cup {Request(FALSE, Map(<<>>), Undefined, NoMap,
                  Map(<<<<TokenName, Str(<<"tokC">>)>>>>)),
          Request(FALSE, Map(<<>>), Undefined, NoMap, Map(<<<<TokenName, Str(<<>>)>>>>))}

\* request URLs and host headers
Urls ==
    {Undefined, Str(<<>>), Str(<<"/", "path">>),
     Str(<<"/", "path", "?", "token", "=", "tokQ">>),
     Str(<<"/", "path", "?", "access_token", "=", "tokQ">>),
     Str(<<"/", "path", "?", "token", "=">>),
     Str(<<"/", "path", "?", "other", "=", "1", "&", "token", "=", "tokQ">>),
     Str(<<"/", "path", "?", "token", "=", "tokQ", "#", "frag">>),
     Str(<<"http:", "/", "/", "example.com", "/", "test", "?", "token", "=", "tokQ">>),
     Str(<<"http:", "/", "/">>),
     Str(<<"/", "/">>)}

Hosts ==
    {Undefined, Str(<<"example.com">>), Str(<<>>), Str(<<"bad", " ", "host">>),
     Str(<<"example.com", " ">>), Str(<<"example.com", "?", "token", "=", "tokH">>)}

HostHeader(h) == IF h.t = "undefined" THEN <<>> ELSE <<<<"host", h>>>>

QueryFamily ==
    {Incoming(HostHeader(h), u) : h \in Hosts, u \in Urls}
    \cup {Request(FALSE, Map(<<>>), Undefined,
                  Map(<<<<TokenName, Str(<<"tokQ">>)>>>>), NoMap),
          Request(FALSE, Map(<<>>), Undefined, Map(<<<<TokenName, Str(<<>>)>>>>), NoMap)}

\* all three sources populated with different values
AllThree ==
    Incoming(<<<<"cookie", Str(<<"token", "=", "fromCookie">>)>>,
               <<"authorization", Str(<<"Bearer", " ", "fromBearer">>)>>,
               <<"host", Str(<<"example.com">>)>>>>,
             Str(<<"/", "path", "?", "token", "=", "fromQuery">>))

RichRequests == AuthFamily \cup CookieFamily \cup QueryFamily \cup {AllThree}

BuiltinConfigs ==
    {Unset, List(<<>>), List(<<Bearer>>), List(<<Query(TokenName)>>),
     List(<<Query(AccessTokenName)>>), List(<<Cookie(TokenName)>>),
     List(<<Cookie(SessionName)>>),
     List(<<Query(TokenName), Cookie(TokenName), Bearer>>),
     List(<<Bearer, Cookie(TokenName), Query(TokenName)>>)}

UserError == Err("user", "RangeError", TRUE, <<"boom">>, 0)

ExtractorKinds ==
    {Custom(Null), Custom(Undefined), Custom(Str(<<>>)), Custom(Str(<<"tokX">>)),
     Custom(Str(<<"tokY">>)), CustomThrows(UserError), Bearer}

CustomConfigs == {List(l) : l \in SeqsOf(ExtractorKinds, 0, MaxExtractors)}

FewRequests ==
    {Incoming(<<>>, Undefined),
     Incoming(<<<<"authorization", Str(<<"Bearer", " ", "tokA">>)>>>>, Undefined),
     AllThree}

Options(credentialsRequired, extractors, secret, algorithms, algorithm, expiresIn) ==
    [credentialsRequired |-> credentialsRequired, extractors |-> extractors,
     secret |-> secret, algorithms |-> algorithms, algorithm |-> algorithm,
     expiresIn |-> expiresIn]

ExtractOptions(extractors) ==
    Options("unset", extractors, <<"s">>, Unset, "unset", "unset")

Idle == "idle"

----------------------------------------------------------------------------
(* SpecExtract: the extraction pipeline applied to a request               *)

InitExtract ==
    /\ pc = "ready"
    /\ \/ /\ req \in RichRequests
          /\ \E c \in BuiltinConfigs : options = ExtractOptions(c)
       \/ /\ req \in FewRequests
          /\ \E c \in CustomConfigs : options = ExtractOptions(c)
    /\ ext = Idle
    /\ adapter = Idle
    /\ prim = Idle
    /\ hs = Idle
    /\ tk = Idle

\* extractToken(req, options)
CallExtractToken ==
    /\ pc = "ready"
    /\ ext' = extractToken(req, options)
    /\ pc' = "extracted"
    /\ UNCHANGED <<req, options, adapter, prim, hs, tk>>

\* extractor(req), for the first extractor of the configuration
CallExtractor ==
    /\ pc = "ready"
    /\ extractorsOf(options) # <<>>
    /\ LET r == Invoke(extractorsOf(options)[1], req) IN
       ext' = [thrown |-> r.thrown, value |-> r.value, error |-> r.error,
               calls |-> <<1>>]
    /\ pc' = "invoked"
    /\ UNCHANGED <<req, options, adapter, prim, hs, tk>>

NextExtract == CallExtractToken \/ CallExtractor

SpecExtract == InitExtract /\ [][NextExtract]_vars

----------------------------------------------------------------------------
(* SpecToken: a payload is signed, the token (or a tampered one) is        *)
(* presented some time later and verified.                                 *)

MaxTicks == 2
MaxMsgWords == 2

Secrets == {<<"s">>, <<"other">>, <<>>}
Algorithms == {"HS256", "HS384", "HS512"}

Payloads ==
    {[userId |-> 1, role |-> "admin"], [userId |-> 2], [sub |-> "u", iat |-> 400],
     EmptyPayload, [userId |-> 1, exp |-> 5000], [userId |-> 3, iat |-> 9000]}

SignOptions ==
    {Options("unset", Unset, secret, Unset, algorithm, expiresIn) :
        secret \in Secrets, algorithm \in {"unset", "HS256", "HS384"},
        expiresIn \in {"unset", "0s", "2h"}}

VerifyOptions ==
    {Options("unset", Unset, secret, algorithms, "unset", "unset") :
        secret \in Secrets,
        algorithms \in {Unset, List(<<>>), List(<<"HS256">>), List(<<"HS384">>),
                        List(<<"HS256", "HS384">>)}}

DefaultOptions == Options("unset", Unset, <<"s">>, Unset, "unset", "unset")

\* what a failing primitive may throw: its own error classes, a plain
\* Error, or a value that is no Error at all, each with any message
MsgWords == {<<"invalid">>, <<"signature">>, <<"malformed">>, <<"token">>, <<"jwt">>,
             <<"Signature">>, <<"expired">>}
Messages == {Join(ws, " ") : ws \in SeqsOf(MsgWords, 1, MaxMsgWords)}

PrimitiveErrors ==
    {JwtError(cls, m) :
        cls \in {"JsonWebTokenError", "TokenExpiredError", "NotBeforeError"},
        m \in Messages}
    \cup {PlainError(m) : m \in Messages}
    \cup {Err("js", "String", FALSE, m, 0) : m \in Messages}

VerifyMocks ==
    {MockVerify(Threw(e)) : e \in PrimitiveErrors}
    \cup {MockVerify(Returned([userId |-> 1, role |-> "admin"]))}

SignMocks ==
    {MockSign(Threw(PlainError(<<"Signing", " ", "failed">>))),
     MockSign(Threw(Err("js", "String", FALSE, <<"Signing", " ", "failed">>, 0)))}

Scenario(payload, vopts) ==
    [payload |-> payload, vopts |-> vopts, now |-> 1000, ticks |-> 0,
     signRes |-> Returned(Undefined), presented |-> NoDots, tampered |-> FALSE,
     raw |-> Returned(Undefined), verRes |-> Returned(Undefined)]

InitToken ==
    /\ pc = "ready"
    /\ \/ /\ prim = RealPrim
          /\ options \in SignOptions
          /\ \E payload \in Payloads, vopts \in VerifyOptions :
                tk = Scenario(payload, vopts)
       \/ /\ prim \in VerifyMocks \cup SignMocks
          /\ options = DefaultOptions
          /\ tk = Scenario([userId |-> 1, role |-> "admin"], DefaultOptions)
    /\ req = Idle
    /\ ext = Idle
    /\ adapter = Idle
    /\ hs = Idle

\* await signToken(payload, options)
SignToken ==
    /\ pc = "ready"
    /\ LET r == signToken(tk.payload, options, prim, tk.now) IN
       /\ tk' = [tk EXCEPT !.signRes = r,
                           !.presented = IF r.thrown THEN @ ELSE r.value]
       /\ pc' = IF r.thrown THEN "signFailed" ELSE "signed"
    /\ UNCHANGED <<req, options, ext, adapter, prim, hs>>

\* the presenter hands in something other than the token it was given
Tamper ==
    /\ pc = "signed"
    /\ ~tk.tampered
    /\ \E t \in {Empty, NoDots, Undecodable,
                 [tk.presented EXCEPT !.mac.key = <<"flipped">>]} :
          tk' = [tk EXCEPT !.presented = t, !.tampered = TRUE]
    /\ UNCHANGED <<pc, req, options, ext, adapter, prim, hs>>

\* time passes between signing and verification
Tick ==
    /\ pc = "signed"
    /\ tk.ticks < MaxTicks
    /\ \E d \in {1, 3600} :
          tk' = [tk EXCEPT !.now = @ + d, !.ticks = @ + 1]
    /\ UNCHANGED <<pc, req, options, ext, adapter, prim, hs>>

\* await verifyToken(token, options)
VerifyToken ==
    /\ pc = "signed"
    /\ tk' = [tk EXCEPT
                !.raw = jwtVerify(prim, tk.presented, tk.vopts.secret,
                                  algorithmsOf(tk.vopts), tk.now),
                !.verRes = verifyToken(tk.presented, tk.vopts, prim, tk.now)]
    /\ pc' = "done"
    /\ UNCHANGED <<req, options, ext, adapter, prim, hs>>

NextToken == SignToken \/ Tamper \/ Tick \/ VerifyToken

SpecToken == InitToken /\ [][NextToken]_vars

----------------------------------------------------------------------------
(* The adapters.  A handler runs from its entry to `await verifyToken`    *)
(* (Begin) and, once the verification promise has settled, from there to   *)
(* its end (Resume).                                                       *)

NoResponse == [sent |-> FALSE, status |-> 0, body |-> <<>>]

\* what the handler's promise resolved with
Ret(kind, isAuthenticated, hasPayload, payload, hasError, code, message) ==
    [kind |-> kind, isAuthenticated |-> isAuthenticated, hasPayload |-> hasPayload,
     payload |-> payload, hasError |-> hasError, code |-> code, message |-> message]
RetNone == Ret("none", FALSE, FALSE, EmptyPayload, FALSE, "", <<>>)
RetUndefined == Ret("undefined", FALSE, FALSE, EmptyPayload, FALSE, "", <<>>)
RetResponse == Ret("response", FALSE, FALSE, EmptyPayload, FALSE, "", <<>>)
RetTrue == Ret("true", FALSE, FALSE, EmptyPayload, FALSE, "", <<>>)
\* { isAuthenticated: false, error: { code, message } }
RetFailure(code, message) == Ret("result", FALSE, FALSE, EmptyPayload, TRUE, code, message)
\* { isAuthenticated: true }
RetAnonymous == Ret("result", TRUE, FALSE, EmptyPayload, FALSE, "", <<>>)
\* { isAuthenticated: true, payload }
RetAuthenticated(payload) == Ret("result", TRUE, TRUE, payload, FALSE, "", <<>>)

InitHs ==
    [awaiting |-> Returned(Undefined), res |-> NoResponse, nextCalls |-> <<>>,
     settled |-> "pending", ret |-> RetNone, error |-> NoError,
     verifyCalls |-> <<>>, userBefore |-> NoUser]

\* the handler's state on entry, for a request whose user slot holds
\* whatever was put there before the adapter runs
Arriving(r) == [InitHs EXCEPT !.userBefore = r.user]

\* Json401 falling through to the continuation after the response
Json401ThenNext(h, message) ==
    [h EXCEPT !.res = [sent |-> TRUE, status |-> 401, body |-> message],
              !.nextCalls = Append(@, NoError),
              !.settled = "resolved", !.ret = RetUndefined]

\* return res.status(401).json({ error: message })
Json401(h, message) ==
    [h EXCEPT !.res = [sent |-> TRUE, status |-> 401, body |-> message],
              !.settled = "resolved", !.ret = RetResponse]

\* next(arg), the handler returning after it; NoError stands for next()
NextCalled(h, arg) ==
    [h EXCEPT !.nextCalls = Append(@, arg), !.settled = "resolved", !.ret = RetUndefined]

Resolve(h, ret) == [h EXCEPT !.settled = "resolved", !.ret = ret]
Reject(h, e) == [h EXCEPT !.settled = "rejected", !.error = e]

\* const { credentialsRequired = true, ...tokenOptions } = options
crOfDefaultFalse(opts) == opts.credentialsRequired = "true"
crOfAlwaysTrue(opts) == TRUE
crOf(opts) == opts.credentialsRequired # "false"
tokenOptionsOf(opts) == [opts EXCEPT !.credentialsRequired = "unset"]

\* request.user = payload
AttachNothing(r, payload) == r
AttachUser(r, payload) == [r EXCEPT !.user = [present |-> TRUE, payload |-> payload]]

\* the token string as jsonwebtoken sees it: '' is no token at all, and the
\* opaque words used as tokens here have no dots
AsJwt(token) == IF token.v = <<>> THEN Empty ELSE NoDots

\* the primitive's behaviour for one token, when it is given token by token
PrimFor(p, token) == IF "byToken" \in DOMAIN p THEN p.byToken[token] ELSE p

\* await verifyToken(token, tokenOptions): the call is made and the handler
\* is suspended on its promise
Await(h, token, opts, p) ==
    [h EXCEPT !.awaiting = verifyToken(AsJwt(token), opts, PrimFor(p, token), 1000),
              !.verifyCalls = Append(@, token)]

\* a handler ran up to its end, or up to `await verifyToken`
Ended(h, token) == [hs |-> h, pc |-> "done", ext |-> token]
Suspended(h, token) == [hs |-> h, pc |-> "awaiting", ext |-> token]
\* a handler ran from `await verifyToken` to its end
Finished(h, r) == [hs |-> h, req |-> r]

\* the errorMap of the Fastify hook and of verifyRequest, keyed by
\* constructor name
InErrorMapNoMalformed(e) == e.cls \in {"TokenExpiredError", "InvalidTokenError"}
InErrorMap(e) ==
    e.cls \in {"TokenExpiredError", "InvalidTokenError", "MalformedTokenError"}
ErrorMapCodeSwapped(e) ==
    CASE e.cls = "TokenExpiredError" -> "TOKEN_INVALID"
      [] e.cls = "InvalidTokenError" -> "TOKEN_EXPIRED"
      [] e.cls = "MalformedTokenError" -> "TOKEN_MALFORMED"
ErrorMapCode(e) ==
    CASE e.cls = "TokenExpiredError" -> "TOKEN_EXPIRED"
      [] e.cls = "InvalidTokenError" -> "TOKEN_INVALID"
      [] e.cls = "MalformedTokenError" -> "TOKEN_MALFORMED"
ErrorMapMessage(e) ==
    CASE e.cls = "TokenExpiredError" -> <<"Token", " ", "has", " ", "expired">>
      [] e.cls = "InvalidTokenError" -> <<"Invalid", " ", "token", " ", "signature">>
      [] e.cls = "MalformedTokenError" -> <<"Malformed", " ", "token">>

NoTokenMessage == <<"No", " ", "authorization", " ", "token", " ", "was", " ", "found">>

\* Express: catch (error)
expressCatch(h, error) ==
    IF error.isError THEN Json401(h, error.message) ELSE NextCalled(h, error)

\* expressMiddleware, from its entry
expressEnter(h, r, opts, p) ==
    LET token == extractToken(r, opts) IN
    IF token.thrown THEN Ended(expressCatch(h, token.error), token)
    ELSE IF ~Truthy(token.value) /\ crOf(opts)
    THEN Ended(Json401(h, NoTokenError.message), token)
    ELSE IF ~Truthy(token.value) THEN Ended(NextCalled(h, NoError), token)
    ELSE Suspended(Await(h, token.value, tokenOptionsOf(opts), p), token)

\* expressAfterAwait with the assignment to req.user ahead of the outcome test
expressAfterAwaitAssignsFirst(h, r) ==
    IF h.awaiting.thrown
    THEN Finished(expressCatch(h, h.awaiting.error), AttachUser(r, EmptyPayload))
    ELSE Finished(NextCalled(h, NoError), AttachUser(r, h.awaiting.value))

\* expressMiddleware, once verifyToken has settled
expressAfterAwait(h, r) ==
    IF h.awaiting.thrown THEN Finished(expressCatch(h, h.awaiting.error), r)
    ELSE Finished(NextCalled(h, NoError), AttachUser(r, h.awaiting.value))

ExpressBegin ==
    /\ adapter = "express"
    /\ pc = "start"
    /\ \E s \in {expressEnter(hs, req, options, prim)} :
       hs' = s.hs /\ pc' = s.pc /\ ext' = s.ext
    /\ UNCHANGED <<req, options, adapter, prim, tk>>

ExpressResume ==
    /\ adapter = "express"
    /\ pc = "awaiting"
    /\ \E s \in {expressAfterAwait(hs, req)} : hs' = s.hs /\ req' = s.req
    /\ pc' = "done"
    /\ UNCHANGED <<options, ext, adapter, prim, tk>>

\* Fastify onRequest hook: catch (error)
fastifyCatch(h, error) ==
    IF error.isError /\ InErrorMap(error)
    THEN Reject(h, HttpError(401, ErrorMapMessage(error)))
    ELSE Reject(h, error)

\* the onRequest hook, from its entry
hookEnter(h, r, opts, p) ==
    LET token == extractToken(r, opts) IN
    IF token.thrown THEN Ended(fastifyCatch(h, token.error), token)
    ELSE IF ~Truthy(token.value)
    THEN Ended(IF crOf(opts) THEN fastifyCatch(h, HttpError(401, NoTokenMessage))
               ELSE Resolve(h, RetUndefined), token)
    ELSE Suspended(Await(h, token.value, tokenOptionsOf(opts), p), token)

\* the onRequest hook, once verifyToken has settled
hookAfterAwait(h, r) ==
    IF h.awaiting.thrown THEN Finished(fastifyCatch(h, h.awaiting.error), r)
    ELSE Finished(Resolve(h, RetUndefined), AttachUser(r, h.awaiting.value))

FastifyBegin ==
    /\ adapter = "fastify"
    /\ pc = "start"
    /\ \E s \in {hookEnter(hs, req, options, prim)} :
       hs' = s.hs /\ pc' = s.pc /\ ext' = s.ext
    /\ UNCHANGED <<req, options, adapter, prim, tk>>

FastifyResume ==
    /\ adapter = "fastify"
    /\ pc = "awaiting"
    /\ \E s \in {hookAfterAwait(hs, req)} : hs' = s.hs /\ req' = s.req
    /\ pc' = "done"
    /\ UNCHANGED <<options, ext, adapter, prim, tk>>

\* JwtAuthGuard.canActivate: catch (error)
nestCatch(h, error) ==
    IF error.isError THEN Reject(h, error)
    ELSE Reject(h, PlainError(<<"Unknown", " ", "error">>))

\* canActivate, from its entry
canActivateEnter(h, r, opts, p) ==
    LET token == extractToken(r, opts) IN
    IF token.thrown THEN Ended(nestCatch(h, token.error), token)
    ELSE IF ~Truthy(token.value) /\ crOf(opts) THEN Ended(nestCatch(h, NoTokenError), token)
    ELSE IF ~Truthy(token.value) THEN Ended(Resolve(h, RetTrue), token)
    ELSE Suspended(Await(h, token.value, tokenOptionsOf(opts), p), token)

\* canActivate, once verifyToken has settled
canActivateAfterAwait(h, r) ==
    IF h.awaiting.thrown THEN Finished(nestCatch(h, h.awaiting.error), r)
    ELSE Finished(Resolve(h, RetTrue), AttachUser(r, h.awaiting.value))

NestBegin ==
    /\ adapter = "nest"
    /\ pc = "start"
    /\ \E s \in {canActivateEnter(hs, req, options, prim)} :
       hs' = s.hs /\ pc' = s.pc /\ ext' = s.ext
    /\ UNCHANGED <<req, options, adapter, prim, tk>>

NestResume ==
    /\ adapter = "nest"
    /\ pc = "awaiting"
    /\ \E s \in {canActivateAfterAwait(hs, req)} : hs' = s.hs /\ req' = s.req
    /\ pc' = "done"
    /\ UNCHANGED <<options, ext, adapter, prim, tk>>

\* verifyRequest: catch (error)
nodeCatch(h, error) ==
    IF error.isError /\ InErrorMap(error)
    THEN Resolve(h, RetFailure(ErrorMapCode(error), ErrorMapMessage(error)))
    ELSE Reject(h, error)

\* verifyRequest, from its entry
verifyRequestEnter(h, r, opts, p) ==
    LET token == extractToken(r, opts) IN
    IF token.thrown THEN Ended(nodeCatch(h, token.error), token)
    ELSE IF ~Truthy(token.value)
    THEN Ended(IF crOf(opts) THEN Resolve(h, RetFailure("TOKEN_MISSING", NoTokenMessage))
               ELSE Resolve(h, RetAnonymous), token)
    ELSE Suspended(Await(h, token.value, tokenOptionsOf(opts), p), token)

\* verifyRequest, once verifyToken has settled
verifyRequestAfterAwait(h, r) ==
    IF h.awaiting.thrown THEN Finished(nodeCatch(h, h.awaiting.error), r)
    ELSE Finished(Resolve(h, RetAuthenticated(h.awaiting.value)), r)

NodeBegin ==
    /\ adapter = "node"
    /\ pc = "start"
    /\ \E s \in {verifyRequestEnter(hs, req, options, prim)} :
       hs' = s.hs /\ pc' = s.pc /\ ext' = s.ext
    /\ UNCHANGED <<req, options, adapter, prim, tk>>

NodeResume ==
    /\ adapter = "node"
    /\ pc = "awaiting"
    /\ \E s \in {verifyRequestAfterAwait(hs, req)} : hs' = s.hs /\ req' = s.req
    /\ pc' = "done"
    /\ UNCHANGED <<options, ext, adapter, prim, tk>>

----------------------------------------------------------------------------
(* Spec: one request handled by one adapter                                *)

Adapters == {"express", "fastify", "nest", "node"}

ThrownString == Err("js", "String", FALSE, <<"oops">>, 0)

AdapterRequests ==
    {Incoming(<<>>, Undefined),
     Incoming(<<<<"authorization", Str(<<"Bearer", " ", "tokA">>)>>>>, Undefined),
     Incoming(<<<<"authorization", Str(<<"Basic", " ", "tokA">>)>>>>, Undefined),
     Incoming(<<<<"host", Str(<<"bad", " ", "host">>)>>,
                <<"authorization", Str(<<"Bearer", " ", "tokA">>)>>>>,
              Str(<<"/", "path">>))}

AdapterExtractors ==
    {Unset, List(<<Query(TokenName), Bearer>>), List(<<Custom(Str(<<"tokX">>))>>),
     List(<<CustomThrows(UserError)>>), List(<<CustomThrows(ThrownString)>>),
     List(<<CustomThrows(JwtError("TokenExpiredError", <<"jwt", " ", "expired">>))>>)}

\* what an earlier handler may have left in the request's user slot
EarlierUser == [present |-> TRUE, payload |-> [userId |-> 9]]

AdapterPrims ==
    {MockVerify(Returned([userId |-> 1, role |-> "admin"])),
     MockVerify(Returned([userId |-> 2])),
     MockVerify(Threw(JwtError("TokenExpiredError", <<"jwt", " ", "expired">>))),
     MockVerify(Threw(JwtError("JsonWebTokenError", <<"invalid", " ", "signature">>))),
     MockVerify(Threw(JwtError("JsonWebTokenError", <<"jwt", " ", "malformed">>))),
     MockVerify(Threw(JwtError("JsonWebTokenError", <<"invalid", " ", "token">>))),
     MockVerify(Threw(JwtError("JsonWebTokenError", <<"invalid", " ", "algorithm">>))),
     MockVerify(Threw(PlainError(<<"Unknown", " ", "error">>))),
     MockVerify(Threw(ThrownString))}

Init ==
    /\ pc = "start"
    /\ adapter \in Adapters
    /\ \E r \in AdapterRequests, u \in {NoUser, EarlierUser} : req = [r EXCEPT !.user = u]
    /\ \E cr \in {"true", "false", "unset"}, exs \in AdapterExtractors :
          options = Options(cr, exs, <<"s">>, Unset, "unset", "unset")
    /\ prim \in AdapterPrims
    /\ ext = Idle
    /\ hs = Arriving(req)
    /\ tk = Idle

Next ==
    \/ ExpressBegin \/ ExpressResume
    \/ FastifyBegin \/ FastifyResume
    \/ NestBegin \/ NestResume
    \/ NodeBegin \/ NodeResume

Spec == Init /\ [][Next]_vars

----------------------------------------------------------------------------
(* SpecDecorator: UseJwtAuth(options) applied to one handler (method form) *)
(* and to the handler's class (class form); the same request, as two       *)
(* request objects, is sent through each.  req, pc, ext and hs hold one    *)
(* entry per form.                                                         *)

Forms == {"method", "class"}

\* the wrapped handler ran and returned
RetHandler == Ret("handler", FALSE, FALSE, EmptyPayload, FALSE, "", <<>>)

NotExtracted == [thrown |-> FALSE, value |-> Null, error |-> NoError, calls |-> <<>>]

TypeErrorNoHeaders ==
    Err("node", "TypeError", TRUE,
        <<"Cannot", " ", "read", " ", "properties", " ", "of", " ", "undefined">>, 0)
TypeErrorNotAFunction ==
    Err("node", "TypeError", TRUE, <<"split", " ", "is", " ", "not", " ", "a", " ",
                                     "function">>, 0)

\* request.headers.authorization?.split(' ')[1] ?? ''
secondWord(r) ==
    IF ~r.headers.present THEN Threw(TypeErrorNoHeaders)
    ELSE LET auth == Get(r.headers, "authorization") IN
         IF auth.t = "undefined" THEN Returned(Str(<<>>))
         ELSE IF auth.t # "string" THEN Threw(TypeErrorNotAFunction)
         ELSE LET parts == split(auth.v, " ") IN
              Returned(IF Len(parts) >= 2 THEN Str(parts[2]) ELSE Str(<<>>))

\* the method decorator's wrapper once guard.canActivate has settled:
\* a rejection leaves the wrapper, otherwise the original method is applied
methodAfterGuard(h, r, token) ==
    IF h.settled = "rejected" THEN Ended(h, token)
    ELSE Ended(Resolve(h, RetHandler), token)

\* testMethod of the class decorator once guard.canActivate has settled:
\* the header's second word is verified and the handler is suspended again
classAfterGuard(h, r, opts, p, token) ==
    IF h.settled = "rejected" THEN Ended(h, token)
    ELSE LET word == secondWord(r)
             going == [h EXCEPT !.settled = "pending", !.ret = RetNone]
         IN IF word.thrown THEN Ended(Reject(going, word.error), token)
            ELSE [hs |-> Await(going, word.value, opts, p), pc |-> "reverifying",
                  ext |-> token]

\* testMethod of the class decorator once its own verifyToken has settled
classAfterVerify(h, r) ==
    IF h.awaiting.thrown THEN Finished(Reject(h, h.awaiting.error), r)
    ELSE Finished(Resolve(h, RetHandler), AttachUser(r, h.awaiting.value))

DecoratorRequests ==
    {Request(FALSE, Map(<<>>), Undefined, NoMap, NoMap),
     Request(FALSE, Map(<<<<"authorization", Str(<<"Bearer", " ", "tokA">>)>>>>),
             Undefined, NoMap, NoMap),
     Request(FALSE, Map(<<<<"authorization", Str(<<"Basic", " ", "tokA">>)>>>>),
             Undefined, NoMap, NoMap),
     Request(FALSE, Map(<<<<"authorization", Arr(<<"Bearer", " ", "tokA">>)>>>>),
             Undefined, NoMap, NoMap),
     Request(FALSE, NoMap, Undefined, NoMap, NoMap)}

DecoratorExtractors == {Unset, List(<<Custom(Str(<<"tokX">>))>>), List(<<Custom(Null)>>)}

DecoratorPrims ==
    {RealPrim,
     MockVerify(Returned([userId |-> 1, role |-> "admin"])),
     MockVerify(Threw(JwtError("TokenExpiredError", <<"jwt", " ", "expired">>))),
     MockVerify(Threw(PlainError(<<"Unknown", " ", "error">>)))}

\* the handlers of the decorated class
Handlers == {"testMethod", "getProfile"}

InitDecorator ==
    /\ adapter = "decorator"
    /\ \E r \in DecoratorRequests : req = [f \in Forms |-> r]
    /\ \E cr \in {"true", "false", "unset"}, exs \in DecoratorExtractors :
          options = Options(cr, exs, <<"s">>, Unset, "unset", "unset")
    /\ prim \in DecoratorPrims
    /\ pc = [f \in Forms |-> "start"]
    /\ ext = [f \in Forms |-> NotExtracted]
    /\ hs = [f \in Forms |-> Arriving(req[f])]
    /\ tk \in Handlers

\* the wrapper of the method decorator is entered
MethodEnter ==
    /\ pc["method"] = "start"
    /\ \E g \in {canActivateEnter(hs["method"], req["method"], options, prim)} :
       \E s \in {IF g.pc = "done" THEN methodAfterGuard(g.hs, req["method"], g.ext) ELSE g} :
          /\ hs' = [hs EXCEPT !["method"] = s.hs]
          /\ pc' = [pc EXCEPT !["method"] = s.pc]
          /\ ext' = [ext EXCEPT !["method"] = s.ext]
    /\ UNCHANGED <<req, options, adapter, prim, tk>>

\* the guard's verifyToken settles inside the method decorator's wrapper
MethodResume ==
    /\ pc["method"] = "awaiting"
    /\ \E g \in {canActivateAfterAwait(hs["method"], req["method"])} :
       \E s \in {methodAfterGuard(g.hs, g.req, ext["method"])} :
          /\ hs' = [hs EXCEPT !["method"] = s.hs]
          /\ req' = [req EXCEPT !["method"] = g.req]
          /\ pc' = [pc EXCEPT !["method"] = s.pc]
    /\ UNCHANGED <<options, ext, adapter, prim, tk>>

\* testMethod of the class returned by the class decorator is entered
ClassEnter ==
    /\ pc["class"] = "start"
    /\ tk = "testMethod"
    /\ \E g \in {canActivateEnter(hs["class"], req["class"], options, prim)} :
       \E s \in {IF g.pc = "done"
                   THEN classAfterGuard(g.hs, req["class"], options, prim, g.ext)
                   ELSE g} :
          /\ hs' = [hs EXCEPT !["class"] = s.hs]
          /\ pc' = [pc EXCEPT !["class"] = s.pc]
          /\ ext' = [ext EXCEPT !["class"] = s.ext]
    /\ UNCHANGED <<req, options, adapter, prim, tk>>

\* the guard's verifyToken settles inside testMethod of the class form
ClassResume ==
    /\ pc["class"] = "awaiting"
    /\ \E g \in {canActivateAfterAwait(hs["class"], req["class"])} :
       \E s \in {classAfterGuard(g.hs, g.req, options, prim, ext["class"])} :
          /\ hs' = [hs EXCEPT !["class"] = s.hs]
          /\ req' = [req EXCEPT !["class"] = g.req]
          /\ pc' = [pc EXCEPT !["class"] = s.pc]
    /\ UNCHANGED <<options, ext, adapter, prim, tk>>

\* testMethod's own verifyToken settles
ClassReverified ==
    /\ pc["class"] = "reverifying"
    /\ \E s \in {classAfterVerify(hs["class"], req["class"])} :
          /\ hs' = [hs EXCEPT !["class"] = s.hs]
          /\ req' = [req EXCEPT !["class"] = s.req]
    /\ pc' = [pc EXCEPT !["class"] = "done"]
    /\ UNCHANGED <<options, ext, adapter, prim, tk>>

\* a handler of the decorated class other than testMethod is called: the
\* returned class overrides testMethod only, the handler is the inherited one
ClassOtherHandler ==
    /\ pc["class"] = "start"
    /\ tk # "testMethod"
    /\ hs' = [hs EXCEPT !["class"] = Resolve(@, RetHandler)]
    /\ pc' = [pc EXCEPT !["class"] = "done"]
    /\ UNCHANGED <<req, options, ext, adapter, prim, tk>>

NextDecorator ==
    \/ MethodEnter \/ MethodResume
    \/ ClassEnter \/ ClassResume \/ ClassReverified \/ ClassOtherHandler

SpecDecorator == InitDecorator /\ [][NextDecorator]_vars

----------------------------------------------------------------------------
(* SpecConcurrent: two requests in flight in one adapter instance (one     *)
(* options object, one primitive).  req, pc, ext and hs hold one entry per *)
(* request; a handler runs from its entry to its await, and from there to  *)
(* its end, in any interleaving with the other request's handler.          *)

InFlight == {1, 2}

handlerEnter(a, h, r, opts, p) ==
    CASE a = "express" -> expressEnter(h, r, opts, p)
      [] a = "fastify" -> hookEnter(h, r, opts, p)
      [] a = "nest" -> canActivateEnter(h, r, opts, p)
      [] a = "node" -> verifyRequestEnter(h, r, opts, p)

handlerAfterAwait(a, h, r) ==
    CASE a = "express" -> expressAfterAwait(h, r)
      [] a = "fastify" -> hookAfterAwait(h, r)
      [] a = "nest" -> canActivateAfterAwait(h, r)
      [] a = "node" -> verifyRequestAfterAwait(h, r)

\* the request object a handler invocation holds, were it kept in one
\* place shared by all invocations
SharedRequest(i) == 2

\* the request object a handler invocation holds: its own parameter
OwnRequest(i) == i

\* jwt.verify given token by token
KeyedVerify(f) == [byToken |-> f]

TokA == Str(<<"tokA">>)
TokB == Str(<<"tokB">>)

ConcurrentRequests ==
    {Incoming(<<>>, Undefined),
     Incoming(<<<<"authorization", Str(<<"Bearer", " ", "tokA">>)>>>>, Undefined),
     Incoming(<<<<"authorization", Str(<<"Bearer", " ", "tokB">>)>>>>, Undefined)}

OutcomesA ==
    {MockVerify(Returned([userId |-> 1, role |-> "admin"])),
     MockVerify(Threw(JwtError("TokenExpiredError", <<"jwt", " ", "expired">>)))}

OutcomesB ==
    {MockVerify(Returned([userId |-> 2])),
     MockVerify(Threw(JwtError("JsonWebTokenError", <<"invalid", " ", "signature">>))),
     MockVerify(Threw(PlainError(<<"Unknown", " ", "error">>)))}

InitConcurrent ==
    /\ adapter \in Adapters
    /\ \E r1 \in ConcurrentRequests, r2 \in ConcurrentRequests,
          u \in {NoUser, EarlierUser} :
          req = <<[r1 EXCEPT !.user = u], r2>>
    /\ \E cr \in {"true", "false"} :
          options = Options(cr, Unset, <<"s">>, Unset, "unset", "unset")
    /\ \E a \in OutcomesA, b \in OutcomesB :
          prim = KeyedVerify([t \in {TokA, TokB} |-> IF t = TokA THEN a ELSE b])
    /\ pc = <<"start", "start">>
    /\ ext = <<NotExtracted, NotExtracted>>
    /\ hs = <<Arriving(req[1]), Arriving(req[2])>>
    /\ tk = Idle

\* the handler is entered for request i
Enter(i) ==
    /\ pc[i] = "start"
    /\ \E s \in {handlerEnter(adapter, hs[i], req[OwnRequest(i)], options, prim)} :
       /\ hs' = [hs EXCEPT ![i] = s.hs]
       /\ pc' = [pc EXCEPT ![i] = s.pc]
       /\ ext' = [ext EXCEPT ![i] = s.ext]
    /\ UNCHANGED <<req, options, adapter, prim, tk>>

\* verifyToken settles for request i and its handler runs to its end
AfterAwait(i) ==
    /\ pc[i] = "awaiting"
    /\ \E s \in {handlerAfterAwait(adapter, hs[i], req[OwnRequest(i)])} :
       /\ hs' = [hs EXCEPT ![i] = s.hs]
       /\ req' = [req EXCEPT ![OwnRequest(i)] = s.req]
    /\ pc' = [pc EXCEPT ![i] = "done"]
    /\ UNCHANGED <<options, ext, adapter, prim, tk>>

NextConcurrent == \E i \in InFlight : Enter(i) \/ AfterAwait(i)

SpecConcurrent == InitConcurrent /\ [][NextConcurrent]_vars

----------------------------------------------------------------------------
(* Properties of the extraction pipeline (SpecExtract)                     *)

ConfiguredResults ==
    [i \in 1..Len(extractorsOf(options)) |-> Invoke(extractorsOf(options)[i], req)]

FoundAt(i) == ~ConfiguredResults[i].thrown /\ Truthy(ConfiguredResults[i].value)
NothingAt(i) == ~ConfiguredResults[i].thrown /\ ~Truthy(ConfiguredResults[i].value)

\* C1: extractToken returns the value of the first extractor, in list
\* order, whose result is non-empty, invoking exactly the extractors up to
\* and including that one; it returns null when every extractor returns
\* nothing.
C1_FirstNonEmptyWins ==
    pc = "extracted" =>
        /\ \A i \in 1..Len(extractorsOf(options)) :
              (FoundAt(i) /\ \A j \in 1..(i - 1) : NothingAt(j)) =>
                  /\ ~ext.thrown
                  /\ ext.value = ConfiguredResults[i].value
                  /\ ext.calls = [k \in 1..i |-> k]
        /\ (\A i \in 1..Len(extractorsOf(options)) : NothingAt(i)) =>
              (~ext.thrown /\ ext.value = Null)

\* the second of three extractors succeeds after the first returned '';
\* the third is never invoked
C1_Witness ==
    /\ pc = "extracted"
    /\ Len(extractorsOf(options)) = 3
    /\ extractorsOf(options)[1] = Custom(Str(<<>>))
    /\ extractorsOf(options)[3] = Custom(Str(<<"tokX">>))
    /\ ext.value = Str(<<"tokY">>)
    /\ ext.calls = <<1, 2>>

\* C8: no built-in extractor throws, whatever the request.
C8_BuiltinsNeverThrow ==
    (pc = "invoked" /\ extractorsOf(options)[1].kind \in {"bearer", "query", "cookie"})
        => ~ext.thrown

\* a header name in lower case
LowerName(k) == IF k \in {"Authorization", "AUTHORIZATION"} THEN "authorization" ELSE k

\* the value of the header called name, whatever the letter case of the
\* name it is stored under
HeaderAnyCase(r, name) ==
    IF r.headers.present
    THEN Lookup([i \in 1..Len(r.headers.map) |->
                    <<LowerName(r.headers.map[i][1]), r.headers.map[i][2]>>], name)
    ELSE Undefined

Spaces(v) == {i \in 1..Len(v) : v[i] = " "}

\* what the bearer rule gives for a header value
BearerRule(h) ==
    IF h.t = "string" /\ Cardinality(Spaces(h.v)) = 1
    THEN LET i == CHOOSE i \in Spaces(h.v) : TRUE IN
         IF toLowerCase(SubSeq(h.v, 1, i - 1)) = <<"bearer">>
         THEN Str(SubSeq(h.v, i + 1, Len(h.v)))
         ELSE Null
    ELSE Null

BearerInvoked == pc = "invoked" /\ extractorsOf(options)[1].kind = "bearer"

\* C15: the bearer extractor reads the authorization header whatever the
\* letter case of its name; it returns the second part exactly when the
\* value is two space-separated parts whose first is 'bearer' in any letter
\* case, and null for every other shape.
C15_BearerRule ==
    BearerInvoked =>
        (~ext.thrown /\ ext.value = BearerRule(HeaderAnyCase(req, "authorization")))

CookieInvoked ==
    /\ pc = "invoked"
    /\ extractorsOf(options)[1].kind = "cookie"
    /\ req.isIncoming
    /\ Get(req.headers, "cookie").t = "string"

\* the trimmed segments of the raw cookie header
CookieSegments ==
    LET raw == split(Get(req.headers, "cookie").v, ";")
    IN [i \in 1..Len(raw) |-> trim(raw[i])]

HasEquals(seg) == IndexOf(seg, "=") # 0
KeyOf(seg) == SubSeq(seg, 1, IndexOf(seg, "=") - 1)
\* the whole text after the first '='
ValueOf(seg) == SubSeq(seg, IndexOf(seg, "=") + 1, Len(seg))

\* C16: a segment is split once, on its first '=': when exactly one
\* segment of the cookie header carries the requested name, the extractor
\* returns the whole text after that segment's first '=' (null when that
\* text is empty), further '=' characters included.
C16_ValueAfterFirstEquals ==
    CookieInvoked =>
        \A i \in 1..Len(CookieSegments) :
            (/\ HasEquals(CookieSegments[i])
             /\ KeyOf(CookieSegments[i]) = extractorsOf(options)[1].param
             /\ \A j \in 1..Len(CookieSegments) :
                    (j # i /\ HasEquals(CookieSegments[j])) =>
                        KeyOf(CookieSegments[j]) # KeyOf(CookieSegments[i])
             /\ \A j \in 1..Len(CookieSegments) : HasEquals(CookieSegments[j])) =>
                (~ext.thrown /\ ext.value = OrNull(Str(ValueOf(CookieSegments[i]))))

\* the request with every '='-less segment taken out of its cookie header
WithoutBareSegments(r) ==
    LET kept == SelectSeq(split(Get(r.headers, "cookie").v, ";"), HasEquals)
    IN [r EXCEPT !.headers.map = Append(@, <<"cookie", Str(Join(kept, ";"))>>)]

\* C17: a segment without '=' is ignored: the extractor's result for any
\* name equals its result on the same header without the '='-less
\* segments, and it never throws; a header of '='-less segments only gives
\* null.
C17_BareSegmentsIgnored ==
    CookieInvoked =>
        /\ ~ext.thrown
        /\ ext.value =
              fromCookie(extractorsOf(options)[1].param, WithoutBareSegments(req)).value
        /\ (\A i \in 1..Len(CookieSegments) : ~HasEquals(CookieSegments[i])) =>
              ext.value = Null

QueryInvoked == pc = "invoked" /\ extractorsOf(options)[1].kind = "query"

\* the value of the parameter called name in the query string of the
\* request's URL (the parsed query map of a request-like object); null
\* when the request has no URL or the parameter is not there
NamedParameter(r, name) ==
    IF r.isIncoming
    THEN IF Truthy(r.url) THEN searchParamsGet(QueryOf(r.url.v), name) ELSE Null
    ELSE OrNull(Get(r.query, name))

\* C18: the query-parameter extractor returns the value of the named
\* parameter of the request URL's query string, and returns null without
\* throwing when the parameter is not present, when the request has no URL
\* and when it has no host header.
C18_QueryParameterTolerant ==
    QueryInvoked =>
        /\ ~ext.thrown
        /\ ext.value = NamedParameter(req, extractorsOf(options)[1].param)

----------------------------------------------------------------------------
(* Properties of signing and verification (SpecToken)                      *)

Mentions(e, words) == includes(toLowerCase(e.message), words)

\* the kind the stated precedence gives for a primitive failure
PrecedenceKind(e) ==
    IF e.lib = "jsonwebtoken" /\ e.cls = "TokenExpiredError" THEN TokenExpiredError
    ELSE IF Mentions(e, <<"signature">>) THEN InvalidTokenError
    ELSE IF Mentions(e, <<"malformed">>) \/ Mentions(e, <<"invalid", " ", "token">>)
    THEN MalformedTokenError
    ELSE InvalidTokenError

\* C2 as stated: every failure of the primitive is raised as the kind the
\* precedence gives.
C2_EveryFailureClassified ==
    (pc = "done" /\ tk.raw.thrown) =>
        (tk.verRes.thrown /\ tk.verRes.error = PrecedenceKind(tk.raw.error))

\* C2 amended: a failure of the primitive that is one of its token errors
\* (JsonWebTokenError or a subclass of it) is raised as the kind the
\* precedence gives.
C2_TokenErrorsClassified ==
    (pc = "done" /\ tk.raw.thrown /\ IsJsonWebTokenError(tk.raw.error)) =>
        (tk.verRes.thrown /\ tk.verRes.error = PrecedenceKind(tk.raw.error))

\* a token error whose message mentions both 'malformed' and 'signature'
C2_Witness ==
    /\ pc = "done"
    /\ tk.raw.thrown
    /\ tk.raw.error = JwtError("JsonWebTokenError", <<"malformed", " ", "signature">>)
    /\ tk.verRes.error = InvalidTokenError

RealRoundTrip ==
    /\ pc = "done"
    /\ ~prim.mockSign
    /\ ~prim.mockVerify
    /\ ~tk.signRes.thrown
    /\ ~tk.tampered

TimingClaims == {"iat", "exp"}

AllowList ==
    IF tk.vopts.algorithms.set
    THEN {tk.vopts.algorithms.list[i] : i \in 1..Len(tk.vopts.algorithms.list)}
    ELSE {"HS256"}

\* C10: a token signed with an algorithm outside the configured allow-list
\* (default exactly HS256) is never accepted: verification fails, with kind
\* Malformed or InvalidSignature.
C10_AllowListEnforced ==
    (RealRoundTrip /\ tk.presented.alg \notin AllowList) =>
        (tk.verRes.thrown /\ tk.verRes.error \in {MalformedTokenError, InvalidTokenError})

\* an unexpired HS384 token under the right secret, refused by the default list
C10_Witness ==
    /\ RealRoundTrip
    /\ tk.presented.alg = "HS384"
    /\ ~tk.vopts.algorithms.set
    /\ tk.vopts.secret = options.secret
    /\ tk.now < tk.presented.payload.exp
    /\ tk.verRes.thrown
    /\ tk.verRes.error = InvalidTokenError

\* a real token, signed with expiresIn '0s', presented untouched to a
\* verifier that holds the signing secret and allows the signing algorithm
ZeroLifetimePresented ==
    /\ RealRoundTrip
    /\ options.expiresIn = "0s"
    /\ tk.vopts.secret = options.secret
    /\ tk.presented.alg \in AllowList

C12_WrongSecretInvalidSignature ==
    (/\ RealRoundTrip
     /\ tk.vopts.secret # options.secret
     /\ tk.now < tk.presented.payload.exp) =>
        /\ tk.verRes.thrown
        /\ tk.verRes.error.lib = "jwt-flex"
        /\ tk.verRes.error.cls = "InvalidTokenError"
        /\ tk.verRes.error.message = <<"Invalid", " ", "token", " ", "signature">>

\* signed with 's', verified with 'other' under the default allow-list
C12_Witness ==
    /\ RealRoundTrip
    /\ options.secret = <<"s">>
    /\ tk.vopts.secret = <<"other">>
    /\ tk.presented.alg \in AllowList
    /\ tk.now < tk.presented.payload.exp
    /\ tk.raw = Threw(JwtError("JsonWebTokenError", <<"invalid", " ", "signature">>))
    /\ tk.verRes = Threw(InvalidTokenError)

\* what the primitive reports for a wrong segment count, for segments that
\* do not decode, and for an algorithm it is not allowed to use
WrongSegmentCount == JwtError("JsonWebTokenError", <<"jwt", " ", "malformed">>)
BadEncoding == JwtError("JsonWebTokenError", <<"invalid", " ", "token">>)
UnsupportedAlgorithm == JwtError("JsonWebTokenError", <<"invalid", " ", "algorithm">>)

PrimitiveReported(e) == pc = "done" /\ tk.raw = Threw(e)

\* C13 as stated: verifyToken fails with kind Malformed whenever the
\* primitive reports a wrong segment count, a bad encoding or an
\* unsupported algorithm.
C13_StructurallyInvalidMalformed ==
    (\/ PrimitiveReported(WrongSegmentCount)
     \/ PrimitiveReported(BadEncoding)
     \/ PrimitiveReported(UnsupportedAlgorithm)) =>
        tk.verRes = Threw(MalformedTokenError)

\* C13 amended: verifyToken fails with kind Malformed whenever the
\* primitive reports a wrong segment count or a bad encoding; when it
\* reports an unsupported algorithm verifyToken fails with kind
\* InvalidSignature.
C13_MalformedExceptAlgorithm ==
    /\ (PrimitiveReported(WrongSegmentCount) \/ PrimitiveReported(BadEncoding)) =>
          tk.verRes = Threw(MalformedTokenError)
    /\ PrimitiveReported(UnsupportedAlgorithm) => tk.verRes = Threw(InvalidTokenError)

\* 'not.a.validtoken' presented in place of the signed token
C13_Witness ==
    /\ pc = "done"
    /\ ~prim.mockVerify
    /\ tk.tampered
    /\ tk.presented = Undecodable
    /\ tk.raw = Threw(BadEncoding)
    /\ tk.verRes = Threw(MalformedTokenError)

\* C14: a failure of the primitive that is neither its expiry error nor
\* its token-error type is raised by verifyToken as the identical value:
\* not wrapped, not one of the three kinds, not swallowed.
C14_UnrecognizedReraised ==
    (/\ pc = "done"
     /\ tk.raw.thrown
     /\ ~IsJwtTokenExpiredError(tk.raw.error)
     /\ ~IsJsonWebTokenError(tk.raw.error)) =>
        /\ tk.verRes.thrown
        /\ tk.verRes.error = tk.raw.error
        /\ tk.verRes.error \notin {TokenExpiredError, InvalidTokenError, MalformedTokenError}

\* a plain Error whose message is 'invalid signature' comes out as it went in
C14_Witness ==
    /\ pc = "done"
    /\ prim.mockVerify
    /\ tk.raw = Threw(PlainError(<<"invalid", " ", "signature">>))
    /\ tk.verRes = Threw(PlainError(<<"invalid", " ", "signature">>))

\* what the signing primitive did when signToken called it
SignAttempt ==
    jwtSign(prim, tk.payload, options.secret, expiresInOf(options), algorithmOf(options),
            1000)

\* C23: when the signing primitive fails with an Error, signToken fails
\* with a new Error whose message is 'Failed to sign token: ' followed by
\* the primitive's message; the failure is none of the four classified
\* kinds and no token is returned.
C23_SignFailureWrapped ==
    (pc # "ready" /\ SignAttempt.thrown /\ SignAttempt.error.isError) =>
        /\ tk.signRes.thrown
        /\ tk.signRes.error =
              PlainError(<<"Failed", " ", "to", " ", "sign", " ", "token:", " ">>
                         \o SignAttempt.error.message)
        /\ tk.signRes.error \notin
              {NoTokenError, TokenExpiredError, InvalidTokenError, MalformedTokenError}
        /\ pc = "signFailed"

\* jwt.sign throws new Error('Signing failed')
C23_Witness ==
    /\ pc = "signFailed"
    /\ prim = MockSign(Threw(PlainError(<<"Signing", " ", "failed">>)))
    /\ tk.signRes =
          Threw(PlainError(<<"Failed", " ", "to", " ", "sign", " ", "token:", " ",
                             "Signing", " ", "failed">>))

----------------------------------------------------------------------------
(* Properties of the adapters (Spec)                                       *)

ClassifiedNames ==
    {"NoTokenError", "TokenExpiredError", "InvalidTokenError", "MalformedTokenError"}

\* the adapter's unauthorized outcome, carrying message
Unauthorized(message) ==
    CASE adapter = "express" ->
            /\ hs.res.sent
            /\ hs.res.status = 401
            /\ hs.res.body = message
            /\ hs.nextCalls = <<>>
      [] adapter = "fastify" ->
            /\ hs.settled = "rejected"
            /\ hs.error = HttpError(401, message)
      [] adapter = "nest" ->
            /\ hs.settled = "rejected"
            /\ hs.error.lib = "jwt-flex"
            /\ hs.error.cls \in ClassifiedNames
            /\ hs.error.message = message
      [] adapter = "node" ->
            /\ hs.settled = "resolved"
            /\ hs.ret.kind = "result"
            /\ ~hs.ret.isAuthenticated
            /\ hs.ret.hasError
            /\ hs.ret.message = message

\* the request is let through to what follows the adapter
LetThrough ==
    CASE adapter = "express" -> hs.nextCalls = <<NoError>> /\ ~hs.res.sent
      [] adapter = "fastify" -> hs.settled = "resolved"
      [] adapter = "nest" -> hs.settled = "resolved" /\ hs.ret = RetTrue
      [] adapter = "node" -> hs.settled = "resolved" /\ hs.ret.isAuthenticated

\* an error reaches the host's error channel and no 401 is produced
Propagated ==
    CASE adapter = "express" ->
            /\ ~hs.res.sent
            /\ Len(hs.nextCalls) = 1
            /\ hs.nextCalls[1] # NoError
      [] adapter = "fastify" -> hs.settled = "rejected" /\ hs.error.statusCode # 401
      [] adapter = "nest" -> hs.settled = "rejected" /\ hs.error.lib # "jwt-flex"
      [] adapter = "node" -> hs.settled = "rejected"

NoTokenFound == pc = "done" /\ ~ext.thrown /\ ~Truthy(ext.value)
TokenFound == pc = "done" /\ ~ext.thrown /\ Truthy(ext.value)

\* C3: no token and credentialsRequired true or unset: the adapter's
\* unauthorized outcome with 'No authorization token was found' (code
\* TOKEN_MISSING from verifyRequest), and the request is not let through.
C3_MissingTokenUnauthorized ==
    (NoTokenFound /\ options.credentialsRequired \in {"true", "unset"}) =>
        /\ Unauthorized(<<"No", " ", "authorization", " ", "token", " ", "was", " ",
                          "found">>)
        /\ ~LetThrough
        /\ adapter = "node" => hs.ret.code = "TOKEN_MISSING"
        /\ req.user = hs.userBefore

\* verifyRequest answers TOKEN_MISSING with credentialsRequired left unset
C3_Witness ==
    /\ NoTokenFound
    /\ options.credentialsRequired = "unset"
    /\ adapter = "node"
    /\ hs.ret = RetFailure("TOKEN_MISSING", NoTokenMessage)

\* C4: no token and credentialsRequired false: the request passes through,
\* no payload is attached or returned and no error is raised or returned.
C4_MissingTokenOptional ==
    (NoTokenFound /\ options.credentialsRequired = "false") =>
        /\ LetThrough
        /\ req.user = hs.userBefore
        /\ hs.settled = "resolved"
        /\ ~hs.res.sent
        /\ ~hs.ret.hasPayload
        /\ ~hs.ret.hasError
        /\ adapter = "express" => hs.nextCalls = <<NoError>>

\* the Express continuation runs for a request with a non-bearer header
C4_Witness ==
    /\ NoTokenFound
    /\ options.credentialsRequired = "false"
    /\ adapter = "express"
    /\ Get(req.headers, "authorization") = Str(<<"Basic", " ", "tokA">>)
    /\ hs.nextCalls = <<NoError>>

\* C5: a token is found and verification succeeds: the payload verification
\* returned is attached unchanged as request.user (returned as payload with
\* isAuthenticated true by verifyRequest) and the pipeline continues.
C5_PayloadAttached ==
    (TokenFound /\ ~hs.awaiting.thrown) =>
        /\ LetThrough
        /\ IF adapter = "node"
           THEN hs.ret.hasPayload /\ hs.ret.payload = hs.awaiting.value
           ELSE req.user = [present |-> TRUE, payload |-> hs.awaiting.value]

\* the Nest guard attaches {userId: 2} and returns true
C5_Witness ==
    /\ TokenFound
    /\ adapter = "nest"
    /\ ~hs.awaiting.thrown
    /\ hs.awaiting.value = [userId |-> 2]
    /\ req.user.present
    /\ req.user.payload = [userId |-> 2]
    /\ hs.ret = RetTrue

KindMessage(e) ==
    CASE e.cls = "TokenExpiredError" -> <<"Token", " ", "has", " ", "expired">>
      [] e.cls = "InvalidTokenError" -> <<"Invalid", " ", "token", " ", "signature">>
      [] e.cls = "MalformedTokenError" -> <<"Malformed", " ", "token">>

\* C6: a token is found and verification fails with Expired,
\* InvalidSignature or Malformed: the adapter's unauthorized outcome with
\* that kind's message, never let through, whatever credentialsRequired is.
C6_VerificationFailureUnauthorized ==
    (/\ TokenFound
     /\ hs.awaiting.thrown
     /\ hs.awaiting.error \in {TokenExpiredError, InvalidTokenError, MalformedTokenError}) =>
        /\ Unauthorized(KindMessage(hs.awaiting.error))
        /\ ~LetThrough
        /\ req.user = hs.userBefore

\* the Fastify hook rejects a malformed token with credentialsRequired false
C6_Witness ==
    /\ TokenFound
    /\ adapter = "fastify"
    /\ options.credentialsRequired = "false"
    /\ hs.awaiting.thrown
    /\ hs.awaiting.error = MalformedTokenError
    /\ hs.error = HttpError(401, <<"Malformed", " ", "token">>)

\* an exception was raised during extraction or verification
HasRaised == pc = "done" /\ (ext.thrown \/ (Truthy(ext.value) /\ hs.awaiting.thrown))
Raised == IF ext.thrown THEN ext.error ELSE hs.awaiting.error

\* C7: an exception raised during extraction or verification that is not
\* one of the four classified kinds reaches the host's error channel and is
\* never turned into a 401 / unauthorized outcome.
C7_UnclassifiedPropagates ==
    (HasRaised /\ Raised.lib # "jwt-flex") =>
        (Propagated /\ ~(hs.res.sent /\ hs.res.status = 401))

\* the Express response is 401 with the JSON body {error: message} and the
\* continuation has not been invoked
Express401(message) ==
    /\ hs.res = [sent |-> TRUE, status |-> 401, body |-> message]
    /\ hs.nextCalls = <<>>

\* C19: in the Express middleware a missing required token and a failed
\* verification each end in status 401 with the JSON body {error: message}
\* and no call of next; in no state of a request's handling has next been
\* invoked and a 401 response been sent.
C19_Express401WithoutNext ==
    adapter = "express" =>
        /\ (NoTokenFound /\ options.credentialsRequired # "false") =>
              Express401(<<"No", " ", "authorization", " ", "token", " ", "was", " ",
                           "found">>)
        /\ (/\ TokenFound
            /\ hs.awaiting.thrown
            /\ hs.awaiting.error \in
                  {TokenExpiredError, InvalidTokenError, MalformedTokenError}) =>
              Express401(KindMessage(hs.awaiting.error))
        /\ hs.res.sent => (hs.res.status = 401 /\ hs.nextCalls = <<>>)
        /\ hs.nextCalls # <<>> => ~hs.res.sent

\* an expired token: 401 {error: 'Token has expired'}, next not called
C19_Witness ==
    /\ adapter = "express"
    /\ TokenFound
    /\ hs.awaiting = Threw(TokenExpiredError)
    /\ hs.res = [sent |-> TRUE, status |-> 401,
                 body |-> <<"Token", " ", "has", " ", "expired">>]
    /\ hs.nextCalls = <<>>
    /\ hs.settled = "resolved"

\* C20: verifyRequest never raises: whatever the request and the
\* configuration, and also when extraction or verification raises an
\* unclassified error, its promise resolves with a result record tagged
\* isAuthenticated.
C20_VerifyRequestNeverRaises ==
    (adapter = "node" /\ pc = "done") =>
        /\ hs.settled = "resolved"
        /\ hs.ret.kind = "result"
        /\ hs.ret.isAuthenticated \in BOOLEAN

\* the rows of the four-kind table, by the name of the failure's class
TableRow(kind) ==
    CASE kind = "NoTokenError" ->
            <<"TOKEN_MISSING",
              <<"No", " ", "authorization", " ", "token", " ", "was", " ", "found">>>>
      [] kind = "TokenExpiredError" ->
            <<"TOKEN_EXPIRED", <<"Token", " ", "has", " ", "expired">>>>
      [] kind = "InvalidTokenError" ->
            <<"TOKEN_INVALID", <<"Invalid", " ", "token", " ", "signature">>>>
      [] kind = "MalformedTokenError" -> <<"TOKEN_MALFORMED", <<"Malformed", " ", "token">>>>

\* the class of the failure that occurred while the request was handled
FailureKind == IF NoTokenFound THEN "NoTokenError" ELSE Raised.cls

\* C24: every record verifyRequest returns has isAuthenticated false
\* exactly when it holds an error, holds a payload only when
\* isAuthenticated is true, and holds as error the (code, message) row of
\* the four-kind table for the failure that occurred.
C24_ResultRecordWellFormed ==
    (adapter = "node" /\ pc = "done" /\ hs.settled = "resolved") =>
        /\ hs.ret.kind = "result"
        /\ hs.ret.isAuthenticated <=> ~hs.ret.hasError
        /\ hs.ret.hasPayload => hs.ret.isAuthenticated
        /\ hs.ret.hasError =>
              /\ NoTokenFound \/ HasRaised
              /\ FailureKind \in ClassifiedNames
              /\ <<hs.ret.code, hs.ret.message>> = TableRow(FailureKind)
        /\ ~hs.ret.hasError => (hs.ret.code = "" /\ hs.ret.message = <<>>)

\* a malformed token: {isAuthenticated: false, error: {TOKEN_MALFORMED, ...}}
C24_Witness ==
    /\ adapter = "node"
    /\ TokenFound
    /\ hs.awaiting = Threw(MalformedTokenError)
    /\ hs.ret = RetFailure("TOKEN_MALFORMED", <<"Malformed", " ", "token">>)
    /\ ~hs.ret.isAuthenticated
    /\ ~hs.ret.hasPayload

\* C25: an adapter writes the request's user slot only when a token was
\* found and its verification succeeded: on pass-through without a token
\* and on every unauthorized or propagated-error outcome, and while the
\* handler has not ended, the slot is exactly as it was before the adapter
\* ran.
C25_UserSlotFrame ==
    /\ pc # "done" => req.user = hs.userBefore
    /\ (pc = "done" /\ ~(TokenFound /\ ~hs.awaiting.thrown)) => req.user = hs.userBefore
    /\ req.user # hs.userBefore =>
          (TokenFound /\ ~hs.awaiting.thrown
           /\ req.user = [present |-> TRUE, payload |-> hs.awaiting.value])

\* an expired token on a request whose user slot was filled earlier: 401,
\* and the slot still holds what it held
C25_Witness ==
    /\ adapter = "express"
    /\ TokenFound
    /\ hs.awaiting = Threw(TokenExpiredError)
    /\ hs.res.sent
    /\ hs.userBefore = [present |-> TRUE, payload |-> [userId |-> 9]]
    /\ req.user = [present |-> TRUE, payload |-> [userId |-> 9]]

----------------------------------------------------------------------------
(* Properties of the UseJwtAuth decorator (SpecDecorator)                  *)

BothFormsDone == adapter = "decorator" /\ pc["method"] = "done" /\ pc["class"] = "done"

\* C21: the class form and the method form of UseJwtAuth behave alike: for
\* every request and configuration both end in the same outcome (handler
\* invoked or the same error raised, the same request.user) after the same
\* extract-verify-attach sequence.
C21_FormsBehaveAlike ==
    BothFormsDone =>
        /\ hs["class"].settled = hs["method"].settled
        /\ hs["class"].ret = hs["method"].ret
        /\ hs["class"].error = hs["method"].error
        /\ req["class"].user = req["method"].user
        /\ hs["class"].verifyCalls = hs["method"].verifyCalls
        /\ ext["class"] = ext["method"]

----------------------------------------------------------------------------
(* Properties of two requests in flight (SpecConcurrent)                   *)

\* request i as it arrived
Arrived(i) == [req[i] EXCEPT !.user = hs[i].userBefore]

\* the handler state and the request that request i ends with when it is
\* handled with no other request in flight
Alone(i) ==
    LET e == handlerEnter(adapter, Arriving(Arrived(i)), Arrived(i), options, prim)
    IN IF e.pc = "done" THEN Finished(e.hs, Arrived(i))
       ELSE handlerAfterAwait(adapter, e.hs, Arrived(i))

\* C22: two requests in flight in one adapter instance do not interact:
\* under every interleaving around the await of verification each request
\* ends with the outcome and the user it gets when handled alone, and until
\* its own handler has ended its user slot is as it arrived.
C22_RequestsDoNotInteract ==
    \A i \in InFlight :
        /\ pc[i] = "done" => (hs[i] = Alone(i).hs /\ req[i] = Alone(i).req)
        /\ pc[i] # "done" => req[i] = Arrived(i)

\* the second request's handler has ended with its own payload attached
\* while the first, entered earlier, is still suspended on its verification
C22_Witness ==
    /\ adapter = "express"
    /\ pc = <<"awaiting", "done">>
    /\ ext[1].value = TokA
    /\ ext[2].value = TokB
    /\ req[1].user = hs[1].userBefore
    /\ req[2].user = [present |-> TRUE, payload |-> [userId |-> 2]]
    /\ hs[1].awaiting = Returned([userId |-> 1, role |-> "admin"])

----------------------------------------------------------------------------
(* Properties of every adapter entry point (Spec, SpecDecorator)           *)

\* the primitive was invoked once, with the token extraction returned, if
\* extraction returned one, and was not invoked otherwise
VerifiedWhatWasExtracted(h, e) ==
    h.verifyCalls = IF ~e.thrown /\ Truthy(e.value) THEN <<e.value>> ELSE <<>>

\* C26: in every adapter entry point the verification primitive is invoked
\* only after extraction returned a token, never when extraction returned
\* nothing, and at most once per request, on exactly the token extraction
\* returned.
C26_VerifyOnlyExtractedOnce ==
    IF adapter = "decorator"
    THEN \A f \in Forms : VerifiedWhatWasExtracted(hs[f], ext[f])
    ELSE IF pc = "start" THEN hs.verifyCalls = <<>>
    ELSE VerifiedWhatWasExtracted(hs, ext)
====
